---- MODULE Spec2Model ----
(***************************************************************************)
(* State-machine model of main.py, the interactive YouTube downloader:     *)
(* the top-level menu loop, the five download operations it dispatches to, *)
(* the format selection menu, and the calls made to the extraction library *)
(* (yt_dlp) and to shutil.which.                                           *)
(*                                                                         *)
(* Strings the program inspects character by character (operator input,   *)
(* URLs, paths) are sequences of tokens, so that strip(), int(), the URL   *)
(* pattern and os.path.splitext are computed, not assumed.  Python's None  *)
(* for such a string is the empty sequence (both are falsy and the code    *)
(* only ever tests truthiness); an optional format is a sequence of length *)
(* 0 or 1.                                                                 *)
(***************************************************************************)
EXTENDS Integers, Sequences, FiniteSets, TLC

\* ------------------------------------------------------------------ bounds

\* longest encoding list handed to format_selection_menu on its own (SpecMenu)
MaxFormats == 3
\* most lines in a batch input file
MaxLines == 3

\* ------------------------------------------------------------ basic values

None == <<>>

Truthy(v) == Len(v) > 0

Msg(text) == [text |-> text, n |-> 0, m |-> 0]

Last(s) == s[Len(s)]

\* dict.get(key, default)
Get(f, k, d) == IF k \in DOMAIN f THEN f[k] ELSE d

\* str(None), which is what an f-string shows for a missing value
PyNone == "None"

IsSpace(c) == c \in {" ", "\n"}

RECURSIVE LStrip(_)
LStrip(s) == IF s # <<>> /\ IsSpace(s[1]) THEN LStrip(Tail(s)) ELSE s

RECURSIVE RStrip(_)
RStrip(s) == IF s # <<>> /\ IsSpace(Last(s)) THEN RStrip(SubSeq(s, 1, Len(s) - 1)) ELSE s

\* str.strip()
Strip(s) == RStrip(LStrip(s))

LowerChar(c) == IF c = "Q" THEN "q" ELSE IF c = "A" THEN "a" ELSE c

\* str.lower()
Lower(s) == [i \in 1..Len(s) |-> LowerChar(s[i])]

Digits == <<"0", "1", "2", "3", "4", "5", "6", "7", "8", "9">>

IsDigit(c) == \E d \in 1..10 : Digits[d] = c

DigitVal(c) == (CHOOSE d \in 1..10 : Digits[d] = c) - 1

RECURSIVE DigitsVal(_)
DigitsVal(s) == IF s = <<>> THEN 0 ELSE 10 * DigitsVal(SubSeq(s, 1, Len(s) - 1)) + DigitVal(Last(s))

\* int(text): surrounding whitespace and one sign are accepted, then there must
\* be at least one digit and nothing else; anything else raises ValueError
ParseInt(text) ==
    LET t == Strip(text)
        signed == t # <<>> /\ t[1] \in {"+", "-"}
        body == IF signed THEN Tail(t) ELSE t
    IN  IF body = <<>> \/ \E i \in 1..Len(body) : ~IsDigit(body[i])
        THEN [ok |-> FALSE, val |-> 0]
        ELSE [ok |-> TRUE,
              val |-> IF signed /\ t[1] = "-" THEN 0 - DigitsVal(body) ELSE DigitsVal(body)]

\* ------------------------------------------------------------------ paths

LastIndexOf(s, c) == IF \E i \in 1..Len(s) : s[i] = c
                     THEN CHOOSE i \in 1..Len(s) : s[i] = c /\ \A j \in (i + 1)..Len(s) : s[j] # c
                     ELSE 0

\* os.path.join(a, b)
PathJoin(a, b) == IF b # <<>> /\ b[1] = "/" THEN b
                  ELSE IF a = <<>> \/ Last(a) = "/" THEN a \o b
                  ELSE a \o <<"/">> \o b

\* os.path.dirname(p)
Dirname(p) == LET i == LastIndexOf(p, "/")
              IN  IF i = 0 THEN <<>> ELSE IF i = 1 THEN <<"/">> ELSE SubSeq(p, 1, i - 1)

\* os.path.splitext(p)[0]: the extension starts at the last dot of the last
\* component, unless only dots precede it in that component
SplitextRoot(p) ==
    LET sep == LastIndexOf(p, "/")
        dot == LastIndexOf(p, ".")
    IN  IF dot > sep /\ \E k \in (sep + 1)..(dot - 1) : p[k] # "."
        THEN SubSeq(p, 1, dot - 1)
        ELSE p

IllegalInName == {"/", ":", "?"}

\* pathvalidate.sanitize_filename(title)
sanitize_filename(title) == SelectSeq(title, LAMBDA c : c \notin IllegalInName)

RECURSIVE Expand(_, _)
Expand(tmpl, inf) ==
    IF tmpl = <<>> THEN <<>>
    ELSE (IF tmpl[1] = "%(title)s" THEN sanitize_filename(inf.title)
          ELSE IF tmpl[1] = "%(ext)s" THEN <<inf.ext>>
          ELSE <<tmpl[1]>>) \o Expand(Tail(tmpl), inf)

\* YoutubeDL.prepare_filename(info): the output template with the fields of
\* the downloaded info filled in
prepare_filename(outtmpl, inf) == Expand(outtmpl, inf)

\* ------------------------------------------------------- input alphabets

\* what the operator may type at the "Enter YouTube URL" prompts
UrlInputs == {
    <<>>,
    <<" ">>,
    <<"https://", "youtu", ".", "be", "/", "abc123">>,
    <<" ", "www.", "youtube", ".", "com", "/", "watch?v=x", " ">>,
    <<"youtube", ".", "com", "/">>,
    <<"https://", "vimeo", ".", "com", "/", "1">> }

\* re.match(r'(https?://)?(www\.)?(youtube|youtu)\.(com|be)/.+', url), on tokens
youtube_pattern(u) ==
    LET a == IF u # <<>> /\ u[1] \in {"http://", "https://"} THEN 2 ELSE 1
        b == IF Len(u) >= a /\ u[a] = "www." THEN a + 1 ELSE a
    IN  /\ Len(u) >= b + 4
        /\ u[b] \in {"youtube", "youtu"}
        /\ u[b + 1] = "."
        /\ u[b + 2] \in {"com", "be"}
        /\ u[b + 3] = "/"

\* what the operator may type at "Select format"
MenuInputs == {
    <<"q">>, <<" ", "Q">>, <<>>, <<"a">>, <<"1", ".", "5">>, <<"-", "1">>,
    <<"0">>, <<"1">>, <<" ", "2", " ">>, <<"+", "3">>, <<"4">>, <<"5">>, <<"1", "0">> }

\* what the operator may type at "Select audio format"
AudioInputs == { <<>>, <<"1">>, <<" ", "2">>, <<"3">>, <<"x">> }

\* what the operator may type at the top-level "Enter choice (1-6)"
MainInputs == {
    <<"1">>, <<" ", "2">>, <<"3">>, <<"4">>, <<"5">>, <<"6">>, <<"7">>, <<"x">>, <<>> }

\* what the operator may type at batch_download's "Enter choice (1-4)"
StrategyInputs == { <<>>, <<"2">>, <<" ", "3">>, <<"4">> }

DirInputs == { <<>>, <<" ", "out">> }

FilenameInputs == { <<>>, <<"my", ".", "song">> }

\* lines a batch input file may hold (readlines keeps the newline)
LinePool == {
    <<"\n">>,
    <<"https://", "youtu", ".", "be", "/", "abc123", "\n">>,
    <<" ", "https://", "youtu", ".", "be", "/", "zzz", " ", "\n">> }

SeqsUpTo(S, n) == UNION { [1..k -> S] : k \in 0..n }

Files == SeqsUpTo(LinePool, MaxLines)

\* ------------------------------------------------- the extraction library

\* encodings as yt_dlp describes them; a key the library leaves out is absent
FormatPool == {
    [format_id |-> "18", ext |-> "mp4", resolution |-> "640x360", vcodec |-> "avc1", acodec |-> "mp4a", abr |-> 96],
    [format_id |-> "22", ext |-> "mp4", resolution |-> "640x360", vcodec |-> "avc1", acodec |-> "mp4a", abr |-> 128],
    [format_id |-> "43", ext |-> "webm", resolution |-> "640x360", vcodec |-> "vp8", acodec |-> "vorbis"],
    [format_id |-> "140", ext |-> "m4a", resolution |-> "audio only", vcodec |-> "none", acodec |-> "mp4a", abr |-> 128],
    [format_id |-> "141", ext |-> "m4a", resolution |-> "audio only", vcodec |-> "none", acodec |-> "mp4a", abr |-> 128],
    [format_id |-> "251", ext |-> "webm", vcodec |-> "none", acodec |-> "opus", abr |-> 0],
    [format_id |-> "250", ext |-> "webm", vcodec |-> "none", acodec |-> "opus"],
    [format_id |-> "137", ext |-> "mp4", resolution |-> "1920x1080", vcodec |-> "avc1", acodec |-> "none"],
    [format_id |-> "sb0", ext |-> "mhtml", resolution |-> "48x27", vcodec |-> "none", acodec |-> "none"],
    [format_id |-> "g1", ext |-> "unknown_video", resolution |-> "360p", vcodec |-> "h264", acodec |-> "aac"],
    [format_id |-> "g2", ext |-> "video", resolution |-> "360p_unknown", vcodec |-> "h264", acodec |-> "aac"] }

\* the encoding lists a discovery may return inside the whole program: none,
\* one video with audio, one audio only, one video only, a video and an audio
DiscoveredLists == { fs \in SeqsUpTo(FormatPool, 2) :
                        [i \in 1..Len(fs) |-> fs[i].format_id]
                            \in { <<>>, <<"18">>, <<"140">>, <<"137">>, <<"18", "140">> } }

\* the title the site holds for a URL
TitleOf(u) == IF \E i \in 1..Len(u) : u[i] = "abc123" THEN <<"t">> ELSE <<"a", "/", "b">>

\* extensions the library may give the file of a 'best' policy download
BestExts == { "mp4", "webm" }

\* ------------------------------------------------- format_selection_menu

IsVideoWithAudio(f) == Get(f, "vcodec", PyNone) # "none" /\ Get(f, "acodec", PyNone) # "none"

IsAudioOnly(f) == Get(f, "acodec", PyNone) # "none" /\ Get(f, "vcodec", PyNone) = "none"

\* f"{resolution}_{ext}"
VideoKey(f) == Get(f, "resolution", "unknown") \o "_" \o Get(f, "ext", "unknown")

\* f"{abr}kbps_{ext}"
AudioKey(f) == ToString(Get(f, "abr", 0)) \o "kbps_" \o Get(f, "ext", "unknown")

\* key in dict, the dict kept as its items in insertion order
HasKey(d, k) == \E i \in 1..Len(d) : d[i].key = k

\* d[key] = f without the membership test: a later encoding replaces the kept one
PutAlways(d, k, f) ==
    IF HasKey(d, k)
    THEN [i \in 1..Len(d) |-> IF d[i].key = k THEN [key |-> k, fmt |-> f] ELSE d[i]]
    ELSE Append(d, [key |-> k, fmt |-> f])

\* if key not in d: d[key] = f
PutIfAbsent(d, k, f) == IF HasKey(d, k) THEN d ELSE Append(d, [key |-> k, fmt |-> f])

\* one pass of the grouping loop
GroupStep(acc, f) ==
    IF IsVideoWithAudio(f)
    THEN [acc EXCEPT !.video = PutIfAbsent(@, VideoKey(f), f)]
    ELSE IF IsAudioOnly(f)
    THEN [acc EXCEPT !.audio = PutIfAbsent(@, AudioKey(f), f)]
    ELSE acc

RECURSIVE GroupFormats(_, _)
GroupFormats(fs, acc) == IF fs = <<>> THEN acc ELSE GroupFormats(Tail(fs), GroupStep(acc, Head(fs)))

Options(d) == [i \in 1..Len(d) |-> d[i].fmt]

\* the audio list numbered from 1 again
LinesFromOne(d, base) == [i \in 1..Len(d) |-> [n |-> i, key |-> d[i].key, ext |-> Get(d[i].fmt, "ext", PyNone)]]

\* the numbered lines printed for one dict, numbering continued after `base`
Lines(d, base) == [i \in 1..Len(d) |-> [n |-> i + base, key |-> d[i].key, ext |-> Get(d[i].fmt, "ext", PyNone)]]

\* SelectOption without the test 0 <= choice_idx: a negative index counts
\* from the end of video_options
SelectOptionNoLower(choice_idx, vo, ao, total) ==
    IF choice_idx < 0 /\ 0 - choice_idx <= Len(vo) THEN <<vo[Len(vo) + choice_idx + 1]>>
    ELSE IF 0 <= choice_idx /\ choice_idx < Len(vo) THEN <<vo[choice_idx + 1]>>
    ELSE IF Len(vo) <= choice_idx /\ choice_idx < total THEN <<ao[choice_idx - Len(vo) + 1]>>
    ELSE <<>>

\* the branch taken for an integer choice: the option returned, or none
SelectOption(choice_idx, vo, ao, total) ==
    IF 0 <= choice_idx /\ choice_idx < Len(vo) THEN <<vo[choice_idx + 1]>>
    ELSE IF Len(vo) <= choice_idx /\ choice_idx < total THEN <<ao[choice_idx - Len(vo) + 1]>>
    ELSE <<>>

\* ------------------------------------------------------------------ state

VARIABLES
    toolchain,             \* the executables shutil.which resolves on PATH
    pc,                    \* where the program is
    op,                    \* the top-level choice being carried out ("0": none)
    main_choice,           \* __main__: choice
    console,               \* the last message printed
    result,                \* what the last finished call returned
    url,                   \* the URL of the running download function
    aformat,               \* download_audio_only: format
    output_dir,
    input_file,            \* batch_download: the lines of the file read
    urls,
    idx,                   \* batch_download: i
    format_choice,
    successful_downloads,
    formats,
    info,
    video_options,
    audio_options,
    menu_lines,            \* the numbered lines format_selection_menu printed
    choice,                \* format_selection_menu: choice
    selected_format,
    filename,
    audio_choice,
    ydl_opts,
    ext,
    ownCheck,              \* what the running function's own check returned
    topCheck,              \* what the top-level operation's check returned
    net,                   \* requests the running function sent to the library
    attempts               \* per-URL calls finished in the running batch

envVars == <<toolchain>>

mainVars == <<op, main_choice>>

batchVars == <<input_file, urls, idx, format_choice, successful_downloads, attempts>>

menuVars == <<video_options, audio_options, menu_lines, choice, selected_format>>

dlVars == <<filename, audio_choice, ydl_opts, ext>>

callVars == <<url, aformat, formats, info, ownCheck, net>>

vars == <<toolchain, pc, op, main_choice, console, result, url, aformat, output_dir,
          input_file, urls, idx, format_choice, successful_downloads, formats, info,
          video_options, audio_options, menu_lines, choice, selected_format, filename,
          audio_choice, ydl_opts, ext, ownCheck, topCheck, net, attempts>>

Tools == {"ffmpeg", "ffprobe"}

NoInfo == [title |-> <<>>]

NoOpts == [format |-> "", outtmpl |-> <<>>, ffmpeg_location |-> <<>>,
           postprocessors |-> <<>>, merge_output_format |-> ""]

\* the locals of a download function before its first statement
FreshLocals ==
    /\ formats = <<>>
    /\ info = NoInfo
    /\ video_options = <<>>
    /\ audio_options = <<>>
    /\ menu_lines = <<>>
    /\ choice = <<>>
    /\ selected_format = <<>>
    /\ filename = <<>>
    /\ audio_choice = <<>>
    /\ ydl_opts = NoOpts
    /\ ext = PyNone
    /\ ownCheck = "none"
    /\ net = <<>>

Idle ==
    /\ op = "0"
    /\ main_choice = <<>>
    /\ console = Msg("")
    /\ result = None
    /\ url = <<>>
    /\ aformat = ""
    /\ output_dir = <<>>
    /\ input_file = <<>>
    /\ urls = <<>>
    /\ idx = 0
    /\ format_choice = <<>>
    /\ successful_downloads = <<>>
    /\ attempts = <<>>
    /\ topCheck = "none"

Init ==
    /\ toolchain \in SUBSET Tools
    /\ pc = "main"
    /\ Idle
    /\ FreshLocals

\* ------------------------------------------------- format_selection_menu

total_options == Len(video_options) + Len(audio_options)

\* where format_selection_menu returns to
AfterMenu == IF op = "1" THEN "dym_prompts" ELSE IF op = "2" THEN "dymu_selected" ELSE "fsm_done"

\* input(...) prints its prompt: it is the last thing on the console when the
\* answer is taken without a further message
SelectPrompt == Msg("Select format")

\* lines 49-80: group, print the two numbered lists
FsmBuild ==
    /\ pc = "fsm_build"
    /\ LET g == GroupFormats(formats, [video |-> <<>>, audio |-> <<>>])
       IN  /\ video_options' = Options(g.video)
           /\ audio_options' = Options(g.audio)
           /\ menu_lines' = Lines(g.video, 0) \o Lines(g.audio, Len(g.video))
    /\ console' = Msg("Audio formats:")
    /\ pc' = "fsm_input"
    /\ UNCHANGED <<envVars, mainVars, batchVars, dlVars, callVars, result, output_dir,
                   choice, selected_format, topCheck>>

\* lines 82-96: one pass of the input loop
FsmInput ==
    /\ pc = "fsm_input"
    /\ \E raw \in MenuInputs :
        LET c == Strip(raw)
            p == ParseInt(c)
            sel == SelectOption(p.val - 1, video_options, audio_options, total_options)
        IN  /\ choice' = c
            /\ IF Lower(c) = <<"q">>
               THEN /\ selected_format' = <<>>
                    /\ pc' = AfterMenu
                    /\ console' = SelectPrompt
               ELSE IF ~p.ok
               THEN /\ console' = Msg("Please enter a valid number")
                    /\ UNCHANGED <<pc, selected_format>>
               ELSE IF sel # <<>>
               THEN /\ selected_format' = sel
                    /\ pc' = AfterMenu
                    /\ console' = SelectPrompt
               ELSE /\ console' = Msg("Invalid selection")
                    /\ UNCHANGED <<pc, selected_format>>
    /\ UNCHANGED <<envVars, mainVars, batchVars, dlVars, callVars, result, output_dir,
                   video_options, audio_options, menu_lines, topCheck>>

\* format_selection_menu called on its own with any encoding list
InitMenu ==
    /\ toolchain = Tools
    /\ pc = "fsm_build"
    /\ Idle
    /\ formats \in SeqsUpTo(FormatPool, MaxFormats)
    /\ info = [title |-> <<"t">>]
    /\ video_options = <<>>
    /\ audio_options = <<>>
    /\ menu_lines = <<>>
    /\ choice = <<>>
    /\ selected_format = <<>>
    /\ filename = <<>>
    /\ audio_choice = <<>>
    /\ ydl_opts = NoOpts
    /\ ext = PyNone
    /\ ownCheck = "none"
    /\ net = <<>>

NextMenu == FsmBuild \/ FsmInput

SpecMenu == InitMenu /\ [][NextMenu]_vars

\* ------------------------------------------------------------ the calls

\* shutil.which(name)
which(name) == IF name \in toolchain THEN <<"/usr/bin", "/", name>> ELSE None

\* lines 9-21: both paths, or (None, None) when either is missing
check_ffmpeg_installed ==
    LET ffmpeg_path == which("ffmpeg")
        ffprobe_path == which("ffprobe")
    IN  IF ~Truthy(ffmpeg_path) \/ ~Truthy(ffprobe_path)
        THEN <<None, None>>
        ELSE <<ffmpeg_path, ffprobe_path>>

\* os.path.dirname(ffmpeg_path), the path being the one a passed check returned
ffmpeg_dir == Dirname(<<"/usr/bin", "/", "ffmpeg">>)

\* the locals of a function that starts running
ResetLocals ==
    /\ formats' = <<>>
    /\ info' = NoInfo
    /\ video_options' = <<>>
    /\ audio_options' = <<>>
    /\ menu_lines' = <<>>
    /\ choice' = <<>>
    /\ selected_format' = <<>>
    /\ filename' = <<>>
    /\ audio_choice' = <<>>
    /\ ydl_opts' = NoOpts
    /\ ext' = PyNone
    /\ ownCheck' = "none"
    /\ net' = <<>>

\* a download function is called with (url, format, output_dir)
Call(entry, u, f, d) ==
    /\ pc' = entry
    /\ url' = u
    /\ aformat' = f
    /\ output_dir' = d
    /\ ResetLocals

\* a top-level operation returns r to __main__
ReturnToMain(r) ==
    /\ result' = r
    /\ pc' = "main_report"
    /\ UNCHANGED attempts

\* a download function returns r, to the batch loop or to the top-level menu
Return(r) ==
    /\ result' = r
    /\ pc' = IF op = "2" THEN "bd_collect" ELSE "main_report"
    /\ attempts' = IF op = "2" THEN Append(attempts, [url |-> url, result |-> r]) ELSE attempts

\* the request the running function sends to the extraction library
Request(kind, outcome) ==
    net' = Append(net, [kind |-> kind, url |-> url, checked |-> ownCheck = "ok", outcome |-> outcome])

\* what is on PATH when a check looks
Found == IF toolchain = Tools THEN "both"
         ELSE IF toolchain = {} THEN "neither"
         ELSE IF "ffmpeg" \in toolchain THEN "ffmpeg only" ELSE "ffprobe only"

\* CheckThen without the early return
CheckThenNoReturn(here, next, paths, top) ==
    /\ pc = here
    /\ ownCheck' = IF \A i \in paths : Truthy(check_ffmpeg_installed[i]) THEN "ok" ELSE "missing"
    /\ topCheck' = IF top THEN Found ELSE topCheck
    /\ console' = Msg("ffmpeg found")
    /\ pc' = next
    /\ UNCHANGED <<result, attempts>>

\* the check every operation starts with: `paths` are the returned paths it
\* tests, `top` whether the function is the top-level operation itself
CheckThen(here, next, paths, top) ==
    /\ pc = here
    /\ LET ok == \A i \in paths : Truthy(check_ffmpeg_installed[i])
       IN  /\ ownCheck' = IF ok THEN "ok" ELSE "missing"
           /\ topCheck' = IF top THEN Found ELSE topCheck
           /\ console' = IF ok THEN Msg("ffmpeg found") ELSE Msg("ffmpeg/ffprobe not found in PATH")
           /\ IF ok
              THEN /\ pc' = next
                   /\ UNCHANGED <<result, attempts>>
              ELSE IF top THEN ReturnToMain(None) ELSE Return(None)

\* the test of the discovery result left out
NotFormatsNever(fs) == FALSE

\* if not formats
NotFormats(fs) == ~Truthy(fs)

\* lines 24-39 and the caller's test of the result (128-131, 344-347)
GetAvailableFormats(here) ==
    /\ pc = here
    /\ \/ /\ Request("discover", "error")
          /\ formats' = None
          /\ info' = NoInfo
          /\ console' = Msg("Could not retrieve available formats")
          /\ Return(None)
       \/ \E fs \in DiscoveredLists :
            /\ Request("discover", IF fs = <<>> THEN "empty" ELSE "ok")
            /\ formats' = fs
            /\ info' = [title |-> TitleOf(url)]
            /\ IF NotFormats(fs)
               THEN /\ console' = Msg("Could not retrieve available formats")
                    /\ Return(None)
               ELSE /\ pc' = "fsm_build"
                    /\ UNCHANGED <<console, result, attempts>>
    /\ UNCHANGED <<envVars, mainVars, menuVars, dlVars, url, aformat, output_dir, input_file,
                   urls, idx, format_choice, successful_downloads, ownCheck, topCheck>>

Postprocessor(codec, quality) ==
    [key |-> "FFmpegExtractAudio", preferredcodec |-> codec, preferredquality |-> quality]

\* AudioOptions without the branch for "3": keeping the original re-encodes to MP3
AudioOptionsNoKeep(c, opts, e) ==
    IF c = <<"2">>
    THEN [opts |-> [opts EXCEPT !.postprocessors = <<Postprocessor("wav", "")>>], ext |-> "wav"]
    ELSE [opts |-> [opts EXCEPT !.postprocessors = <<Postprocessor("mp3", "192")>>], ext |-> "mp3"]

\* lines 174-190 (and 387-403): the branch taken for the audio format answer
AudioOptions(c, opts, e) ==
    IF c = <<"2">>
    THEN [opts |-> [opts EXCEPT !.postprocessors = <<Postprocessor("wav", "")>>], ext |-> "wav"]
    ELSE IF c = <<"3">>
    THEN [opts |-> opts, ext |-> e]
    ELSE [opts |-> [opts EXCEPT !.postprocessors = <<Postprocessor("mp3", "192")>>], ext |-> "mp3"]

\* the extension of the info the library returns after a download: the one of
\* the stream fetched, or the one a postprocessor left
DownloadedExts(opts, e) == {e} \cup { opts.postprocessors[i].preferredcodec : i \in DOMAIN opts.postprocessors }

\* the "Select audio format" prompt
AudioPrompt(here, next) ==
    /\ pc = here
    /\ \E raw \in AudioInputs :
        /\ audio_choice' = Strip(raw)
        /\ ydl_opts' = AudioOptions(Strip(raw), ydl_opts, ext).opts
        /\ ext' = AudioOptions(Strip(raw), ydl_opts, ext).ext
    /\ console' = Msg("Select audio format")
    /\ pc' = next
    /\ UNCHANGED <<envVars, mainVars, batchVars, menuVars, callVars, result, output_dir,
                   filename, topCheck>>

\* output_dir if output_dir else "downloads".  os.makedirs(output_dir,
\* exist_ok=True) and open(input_file) are taken to succeed: they stand outside
\* every try block, and an error they raised would end the process.
DirOrDefault(d) == IF Truthy(Strip(d)) THEN Strip(d) ELSE <<"downloads">>

\* ------------------------------------------------- download_youtube_media

DymCheck ==
    /\ CheckThen("dym_check", "dym_url", {1, 2}, TRUE)
    /\ UNCHANGED <<envVars, mainVars, menuVars, dlVars, url, aformat, formats, info, net,
                   output_dir, input_file, urls, idx, format_choice, successful_downloads>>

\* lines 111-125: one pass of the URL loop
DymUrl ==
    /\ pc = "dym_url"
    /\ \E raw \in UrlInputs :
        IF ~Truthy(Strip(raw))
        THEN /\ console' = Msg("Please enter a URL")
             /\ UNCHANGED <<pc, url>>
        ELSE IF ~youtube_pattern(Strip(raw))
        THEN /\ console' = Msg("Please enter a valid YouTube URL")
             /\ UNCHANGED <<pc, url>>
        ELSE /\ url' = Strip(raw)
             /\ pc' = "dym_formats"
             /\ console' = Msg("Enter YouTube URL")
    /\ UNCHANGED <<envVars, mainVars, batchVars, menuVars, dlVars, aformat, formats, info,
                   ownCheck, net, result, output_dir, topCheck>>

DymFormats == GetAvailableFormats("dym_formats")

\* lines 135-164: the selection test, the two prompts, the option set
DymPrompts ==
    /\ pc = "dym_prompts"
    /\ IF ~Truthy(selected_format)
       THEN /\ Return(None)
            /\ UNCHANGED <<console, output_dir, dlVars>>
       ELSE \E d \in DirInputs, fn \in FilenameInputs :
            LET default_filename == sanitize_filename(info.title)
                name == IF Truthy(Strip(fn)) THEN Strip(fn) ELSE default_filename
            IN  /\ output_dir' = DirOrDefault(d)
                /\ filename' = name
                /\ ext' = Get(selected_format[1], "ext", PyNone)
                /\ ydl_opts' = [NoOpts EXCEPT
                        !.format = Get(selected_format[1], "format_id", PyNone),
                        !.outtmpl = PathJoin(DirOrDefault(d), name \o <<".", "%(ext)s">>),
                        !.ffmpeg_location = ffmpeg_dir]
                /\ pc' = IF Get(selected_format[1], "vcodec", PyNone) = "none"
                         THEN "dym_audio" ELSE "dym_download"
                /\ console' = Msg("Enter filename")
                /\ UNCHANGED <<result, attempts, audio_choice>>
    /\ UNCHANGED <<envVars, mainVars, menuVars, callVars, input_file, urls, idx,
                   format_choice, successful_downloads, topCheck>>

DymAudio == AudioPrompt("dym_audio", "dym_download")

\* lines 201-217
DymDownload ==
    /\ pc = "dym_download"
    /\ \/ /\ Request("download", "error")
          /\ console' = Msg("Error downloading media")
          /\ Return(None)
       \/ /\ Truthy(url)
          /\ Request("download", "ok")
          /\ \E e \in DownloadedExts(ydl_opts, Get(selected_format[1], "ext", PyNone)), sized \in BOOLEAN :
                LET final_filename ==
                        SplitextRoot(prepare_filename(ydl_opts.outtmpl, [title |-> info.title, ext |-> e]))
                            \o <<".", ext>>
                IN  IF sized
                    THEN /\ console' = Msg("Successfully downloaded")
                         /\ Return(final_filename)
                    ELSE /\ console' = Msg("Error downloading media")
                         /\ Return(None)
    /\ UNCHANGED <<envVars, mainVars, menuVars, dlVars, url, aformat, formats, info, ownCheck,
                   output_dir, input_file, urls, idx, format_choice, successful_downloads,
                   topCheck>>

\* --------------------------------------------- download_youtube_media_url

DymuFormats == GetAvailableFormats("dymu_formats")

\* lines 351-355: the selection test, then os.makedirs
DymuSelected ==
    /\ pc = "dymu_selected"
    /\ IF ~Truthy(selected_format)
       THEN Return(None)
       ELSE /\ pc' = "dymu_check"
            /\ UNCHANGED <<result, attempts>>
    /\ UNCHANGED <<envVars, mainVars, menuVars, dlVars, callVars, console, output_dir,
                   input_file, urls, idx, format_choice, successful_downloads, topCheck>>

\* lines 358-360: only ffmpeg_path is tested
DymuCheck ==
    /\ CheckThen("dymu_check", "dymu_opts", {1}, FALSE)
    /\ UNCHANGED <<envVars, mainVars, menuVars, dlVars, url, aformat, formats, info, net,
                   output_dir, input_file, urls, idx, format_choice, successful_downloads>>

\* lines 361-377: the option set

DymuOpts ==
    /\ pc = "dymu_opts"
    /\ LET default_filename == sanitize_filename(info.title)
           outtmpl == PathJoin(output_dir, default_filename \o <<".", "%(ext)s">>)
       IN  /\ filename' = outtmpl
           /\ ext' = Get(selected_format[1], "ext", PyNone)
           /\ ydl_opts' = [NoOpts EXCEPT
                   !.format = Get(selected_format[1], "format_id", PyNone),
                   !.outtmpl = outtmpl,
                   !.ffmpeg_location = ffmpeg_dir]
    /\ pc' = IF Get(selected_format[1], "vcodec", PyNone) = "none" THEN "dymu_audio" ELSE "dymu_download"
    /\ UNCHANGED <<envVars, mainVars, batchVars, menuVars, callVars, console, result,
                   output_dir, audio_choice, topCheck>>

DymuAudio == AudioPrompt("dymu_audio", "dymu_download")

\* lines 405-417
DymuDownload ==
    /\ pc = "dymu_download"
    /\ \/ /\ Request("download", "error")
          /\ console' = Msg("Error downloading media")
          /\ Return(None)
       \/ /\ Truthy(url)
          /\ Request("download", "ok")
          /\ \E e \in DownloadedExts(ydl_opts, Get(selected_format[1], "ext", PyNone)) :
                /\ console' = Msg("Downloaded")
                /\ Return(SplitextRoot(prepare_filename(ydl_opts.outtmpl, [title |-> info.title, ext |-> e]))
                            \o <<".", ext>>)
    /\ UNCHANGED <<envVars, mainVars, menuVars, dlVars, url, aformat, formats, info, ownCheck,
                   output_dir, input_file, urls, idx, format_choice, successful_downloads,
                   topCheck>>

\* ------------------------------------------------------ the direct modes

TitleTemplate(dir) == PathJoin(dir, <<"%(title)s", ".", "%(ext)s">>)

DaoCheck ==
    /\ CheckThen("dao_check", "dao_download", {1, 2}, op # "2")
    /\ UNCHANGED <<envVars, mainVars, menuVars, dlVars, url, aformat, formats, info, net,
                   output_dir, input_file, urls, idx, format_choice, successful_downloads>>

\* download_audio_only, lines 286-309
DaoDownload ==
    /\ pc = "dao_download"
    /\ ydl_opts' = [NoOpts EXCEPT
            !.format = "bestaudio/best",
            !.outtmpl = TitleTemplate(output_dir),
            !.postprocessors = <<Postprocessor(aformat, "")>>,
            !.ffmpeg_location = ffmpeg_dir]
    /\ \/ /\ Request("download", "error")
          /\ console' = Msg("Error downloading audio")
          /\ UNCHANGED info
          /\ Return(None)
       \/ /\ Truthy(url)
          /\ Request("download", "ok")
          /\ \E t \in {TitleOf(url)}, e \in {"m4a", aformat} :
                /\ info' = [title |-> t]
                /\ console' = Msg("Downloaded")
                /\ Return(SplitextRoot(prepare_filename(TitleTemplate(output_dir), [title |-> t, ext |-> e]))
                            \o <<".", aformat>>)
    /\ UNCHANGED <<envVars, mainVars, menuVars, url, aformat, formats, ownCheck, output_dir,
                   filename, audio_choice, ext, input_file, urls, idx, format_choice,
                   successful_downloads, topCheck>>

DbvCheck ==
    /\ CheckThen("dbv_check", "dbv_download", {1, 2}, op # "2")
    /\ UNCHANGED <<envVars, mainVars, menuVars, dlVars, url, aformat, formats, info, net,
                   output_dir, input_file, urls, idx, format_choice, successful_downloads>>

\* download_best_video, lines 318-338
DbvDownload ==
    /\ pc = "dbv_download"
    /\ ydl_opts' = [NoOpts EXCEPT
            !.format = "bestvideo+bestaudio/best",
            !.outtmpl = TitleTemplate(output_dir),
            !.merge_output_format = "mp4",
            !.ffmpeg_location = ffmpeg_dir]
    /\ \/ /\ Request("download", "error")
          /\ console' = Msg("Error downloading video")
          /\ UNCHANGED info
          /\ Return(None)
       \/ /\ Truthy(url)
          /\ Request("download", "ok")
          /\ \E t \in {TitleOf(url)}, e \in BestExts :
                /\ info' = [title |-> t]
                /\ console' = Msg("Downloaded")
                /\ Return(prepare_filename(TitleTemplate(output_dir), [title |-> t, ext |-> e]))
    /\ UNCHANGED <<envVars, mainVars, menuVars, url, aformat, formats, ownCheck, output_dir,
                   filename, audio_choice, ext, input_file, urls, idx, format_choice,
                   successful_downloads, topCheck>>

DwaCheck ==
    /\ CheckThen("dwa_check", "dwa_url", {1, 2}, TRUE)
    /\ UNCHANGED <<envVars, mainVars, menuVars, dlVars, url, aformat, formats, info, net,
                   output_dir, input_file, urls, idx, format_choice, successful_downloads>>

\* download_wav_audio, lines 426-433: the URL prompt and the directory prompt
DwaUrl ==
    /\ pc = "dwa_url"
    /\ \E raw \in UrlInputs :
        /\ url' = Strip(raw)
        /\ IF ~Truthy(Strip(raw))
           THEN /\ console' = Msg("Please enter a URL")
                /\ result' = None
                /\ pc' = "main_report"
                /\ UNCHANGED output_dir
           ELSE /\ \E d \in DirInputs : output_dir' = DirOrDefault(d)
                /\ pc' = "dwa_download"
                /\ console' = Msg("Enter output directory")
                /\ UNCHANGED result
    /\ UNCHANGED <<envVars, mainVars, batchVars, menuVars, dlVars, aformat, formats, info,
                   ownCheck, net, topCheck>>

\* download_wav_audio, lines 435-458
DwaDownload ==
    /\ pc = "dwa_download"
    /\ ydl_opts' = [NoOpts EXCEPT
            !.format = "bestaudio/best",
            !.outtmpl = TitleTemplate(output_dir),
            !.postprocessors = <<Postprocessor("wav", "")>>,
            !.ffmpeg_location = ffmpeg_dir]
    /\ \/ /\ Request("download", "error")
          /\ console' = Msg("Error downloading WAV audio")
          /\ UNCHANGED info
          /\ Return(None)
       \/ /\ Request("download", "ok")
          /\ \E t \in {TitleOf(url)}, e \in {"m4a", "wav"} :
                /\ info' = [title |-> t]
                /\ console' = Msg("Downloaded WAV")
                /\ Return(SplitextRoot(prepare_filename(TitleTemplate(output_dir), [title |-> t, ext |-> e]))
                            \o <<".", "wav">>)
    /\ UNCHANGED <<envVars, mainVars, menuVars, url, aformat, formats, ownCheck, output_dir,
                   filename, audio_choice, ext, input_file, urls, idx, format_choice,
                   successful_downloads, topCheck>>

\* ---------------------------------------------------------- batch_download

BdCheck ==
    /\ CheckThen("bd_check", "bd_prompts", {1, 2}, TRUE)
    /\ UNCHANGED <<envVars, mainVars, menuVars, dlVars, url, aformat, formats, info, net,
                   output_dir, input_file, urls, idx, format_choice, successful_downloads>>

\* [line.strip() for line in f.readlines() if line.strip()]
ReadUrls(lines) == LET stripped == [i \in 1..Len(lines) |-> Strip(lines[i])]
                   IN  SelectSeq(stripped, Truthy)

\* lines 229-255: the file prompt, the directory prompt, the read, the strategy
BdPrompts ==
    /\ pc = "bd_prompts"
    /\ \/ /\ console' = Msg("File not found")
          /\ result' = None
          /\ pc' = "main_report"
          /\ UNCHANGED <<output_dir, input_file, urls, idx, format_choice, successful_downloads>>
       \/ \E lines \in Files, d \in DirInputs, s \in StrategyInputs :
            /\ input_file' = lines
            /\ output_dir' = DirOrDefault(d)
            /\ urls' = ReadUrls(lines)
            /\ format_choice' = Strip(s)
            /\ successful_downloads' = <<>>
            /\ idx' = 1
            /\ console' = [text |-> "Found URLs to download", n |-> Len(ReadUrls(lines)), m |-> 0]
            /\ pc' = "bd_loop"
            /\ UNCHANGED result
    /\ UNCHANGED <<envVars, mainVars, menuVars, dlVars, callVars, attempts, topCheck>>

\* lines 257-271 and 276-277: the next URL is handed to the chosen download
\* function, or the loop is over and the count is reported
BdLoop ==
    /\ pc = "bd_loop"
    /\ IF idx > Len(urls)
       THEN /\ console' = [text |-> "Batch download completed",
                           n |-> Len(successful_downloads), m |-> Len(urls)]
            /\ result' = successful_downloads
            /\ pc' = "main_report"
            /\ UNCHANGED <<menuVars, dlVars, callVars, output_dir>>
       ELSE /\ IF format_choice = <<"2">> THEN Call("dao_check", urls[idx], "mp3", output_dir)
               ELSE IF format_choice = <<"3">> THEN Call("dao_check", urls[idx], "wav", output_dir)
               ELSE IF format_choice = <<"4">> THEN Call("dymu_formats", urls[idx], "", output_dir)
               ELSE Call("dbv_check", urls[idx], "", output_dir)
            /\ console' = [text |-> "Downloading", n |-> idx, m |-> Len(urls)]
            /\ UNCHANGED result
    /\ UNCHANGED <<envVars, mainVars, batchVars, topCheck>>

\* BdCollect leaving the loop at the first failed download
BdCollectBreak ==
    /\ pc = "bd_collect"
    /\ successful_downloads' = IF Truthy(result) THEN Append(successful_downloads, result)
                               ELSE successful_downloads
    /\ idx' = IF Truthy(result) THEN idx + 1 ELSE Len(urls) + 1
    /\ pc' = "bd_loop"
    /\ url' = <<>>
    /\ aformat' = ""
    /\ ResetLocals
    /\ UNCHANGED <<envVars, mainVars, console, result, output_dir, input_file, urls,
                   format_choice, attempts, topCheck>>

\* lines 273-274, and the loop's step to the next URL; the locals of the
\* function that returned are gone
BdCollect ==
    /\ pc = "bd_collect"
    /\ successful_downloads' = IF Truthy(result) THEN Append(successful_downloads, result)
                               ELSE successful_downloads
    /\ idx' = idx + 1
    /\ pc' = "bd_loop"
    /\ url' = <<>>
    /\ aformat' = ""
    /\ ResetLocals
    /\ UNCHANGED <<envVars, mainVars, console, result, output_dir, input_file, urls,
                   format_choice, attempts, topCheck>>

\* ------------------------------------------------------------------ __main__

\* lines 474-493: the choice is read and dispatched
MainMenu ==
    /\ pc = "main"
    /\ \E raw \in MainInputs :
        LET c == Strip(raw)
        IN  /\ main_choice' = c
            /\ IF c = <<"1">> THEN /\ op' = "1"
                                   /\ Call("dym_check", <<>>, "", <<>>)
                                   /\ console' = Msg("Enter choice (1-6)")
               ELSE IF c = <<"2">> THEN /\ op' = "2"
                                        /\ Call("bd_check", <<>>, "", <<>>)
                                        /\ console' = Msg("Enter choice (1-6)")
               ELSE IF c = <<"3">> THEN /\ op' = "3"
                                        /\ \E u \in UrlInputs : Call("dbv_check", Strip(u), "", <<"downloads">>)
                                        /\ console' = Msg("Enter YouTube URL")
               ELSE IF c = <<"4">> THEN /\ op' = "4"
                                        /\ \E u \in UrlInputs : Call("dao_check", Strip(u), "mp3", <<"downloads">>)
                                        /\ console' = Msg("Enter YouTube URL")
               ELSE IF c = <<"5">> THEN /\ op' = "5"
                                        /\ Call("dwa_check", <<>>, "", <<>>)
                                        /\ console' = Msg("Enter choice (1-6)")
               ELSE IF c = <<"6">> THEN /\ pc' = "exit"
                                        /\ console' = Msg("Goodbye!")
                                        /\ UNCHANGED <<op, menuVars, dlVars, callVars, output_dir>>
               ELSE /\ console' = Msg("Invalid choice")
                    /\ UNCHANGED <<pc, op, menuVars, dlVars, callVars, output_dir>>
    /\ result' = None
    /\ UNCHANGED <<envVars, batchVars, topCheck>>

\* MainReport ending the loop after a failed operation
MainReportBreak ==
    /\ pc = "main_report"
    /\ console' = IF Truthy(result) THEN Msg("Operation completed successfully")
                  ELSE Msg("Operation failed")
    /\ pc' = IF Truthy(result) THEN "main" ELSE "exit"
    /\ op' = "0"
    /\ url' = <<>>
    /\ aformat' = ""
    /\ output_dir' = <<>>
    /\ ResetLocals
    /\ input_file' = <<>>
    /\ urls' = <<>>
    /\ idx' = 0
    /\ format_choice' = <<>>
    /\ successful_downloads' = <<>>
    /\ attempts' = <<>>
    /\ topCheck' = "none"
    /\ UNCHANGED <<envVars, main_choice, result>>

\* lines 495-498: the outcome is reported and the loop goes round; the
\* finished operation's locals are gone
MainReport ==
    /\ pc = "main_report"
    /\ console' = IF Truthy(result) THEN Msg("Operation completed successfully")
                  ELSE Msg("Operation failed")
    /\ pc' = "main"
    /\ op' = "0"
    /\ url' = <<>>
    /\ aformat' = ""
    /\ output_dir' = <<>>
    /\ ResetLocals
    /\ input_file' = <<>>
    /\ urls' = <<>>
    /\ idx' = 0
    /\ format_choice' = <<>>
    /\ successful_downloads' = <<>>
    /\ attempts' = <<>>
    /\ topCheck' = "none"
    /\ UNCHANGED <<envVars, main_choice, result>>

CheckPoints == {"dym_check", "bd_check", "dbv_check", "dao_check", "dwa_check", "dymu_check"}

\* PATH or the installed executables change while the program runs.  The
\* program sees them only through shutil.which, so a change at any other
\* moment shows exactly as one made just before the next check.
EnvChange ==
    /\ pc \in CheckPoints
    /\ toolchain' \in (SUBSET Tools) \ {toolchain}
    /\ UNCHANGED <<pc, op, main_choice, console, result, url, aformat, output_dir, input_file,
                   urls, idx, format_choice, successful_downloads, formats, info,
                   video_options, audio_options, menu_lines, choice, selected_format,
                   filename, audio_choice, ydl_opts, ext, ownCheck, topCheck, net, attempts>>

Next ==
    \/ MainMenu
    \/ MainReport
    \/ DymCheck
    \/ DymUrl
    \/ DymFormats
    \/ FsmBuild
    \/ FsmInput
    \/ DymPrompts
    \/ DymAudio
    \/ DymDownload
    \/ BdCheck
    \/ BdPrompts
    \/ BdLoop
    \/ BdCollect
    \/ DymuFormats
    \/ DymuSelected
    \/ DymuCheck
    \/ DymuOpts
    \/ DymuAudio
    \/ DymuDownload
    \/ DaoCheck
    \/ DaoDownload
    \/ DbvCheck
    \/ DbvDownload
    \/ DwaCheck
    \/ DwaUrl
    \/ DwaDownload
    \/ EnvChange

Spec == Init /\ [][Next]_vars

\* ------------------------------------------------------------- properties

RECURSIVE Dec(_)
\* the decimal numeral of a natural number
Dec(k) == IF k < 10 THEN <<Digits[k + 1]>> ELSE Dec(k \div 10) \o <<Digits[(k % 10) + 1]>>

\* the typed text is the integer k
Denotes(c, k) == c = Dec(k) \/ c = <<"+">> \o Dec(k)

IsQuitToken(c) == c \in { <<"q">>, <<"Q">> }

InRange(c) == \E k \in 1..total_options : Denotes(c, k)

IsPrefix(a, b) == Len(a) <= Len(b) /\ \A i \in 1..Len(a) : a[i] = b[i]

NonBlank(line) == \E i \in 1..Len(line) : ~IsSpace(line[i])

Unspaced(line) == SelectSeq(line, LAMBDA c : ~IsSpace(c))

\* the non-blank lines of a file, trimmed, in file order
ExpectedUrls(lines) == LET nb == SelectSeq(lines, NonBlank)
                       IN  [i \in 1..Len(nb) |-> Unspaced(nb[i])]

AttemptedUrls == [i \in 1..Len(attempts) |-> attempts[i].url]

Succeeded == { i \in 1..Len(attempts) : Truthy(attempts[i].result) }

BatchReported == pc = "main_report" /\ op = "2" /\ console.text = "Batch download completed"

\* C1: in a batch run the URLs attempted so far are the first non-blank lines
\* of the input file, each once and in file order, whatever failed before; and
\* when "N/M successful" is reported every non-blank line has been attempted,
\* M is their number, N is the number of calls that returned a path, N <= M.
C1_BatchAttemptsAll ==
    /\ op = "2" => IsPrefix(AttemptedUrls, ExpectedUrls(input_file))
    /\ BatchReported =>
        /\ AttemptedUrls = ExpectedUrls(input_file)
        /\ console.m = Len(ExpectedUrls(input_file))
        /\ console.n = Cardinality(Succeeded)
        /\ console.n <= console.m

\* three URLs, only the second failing: 2/3
C1_Witness ==
    /\ BatchReported
    /\ Len(attempts) = 3
    /\ Succeeded = {1, 3}
    /\ console.n = 2
    /\ console.m = 3

\* C2: when the check of a top-level operation finds an executable missing,
\* the operation is over at once with no result, and it has sent no request to
\* the extraction library and started no per-URL download.
C2_NoToolchainNoNetwork ==
    topCheck \in {"neither", "ffmpeg only", "ffprobe only"} =>
        /\ pc = "main_report"
        /\ ~Truthy(result)
        /\ net = <<>>
        /\ attempts = <<>>

\* neither executable found, batch chosen
C2_Witness ==
    /\ topCheck = "neither"
    /\ op = "2"
    /\ pc = "main_report"

\* the part of a path after its last dot
PathExt(path) == SubSeq(path, LastIndexOf(path, ".") + 1, Len(path))

\* download_youtube_media or download_youtube_media_url has just returned
SelectionReturned ==
    \/ op = "1" /\ pc = "main_report"
    \/ op = "2" /\ pc = "bd_collect" /\ format_choice = <<"4">>

AudioOnlySelected == Truthy(selected_format) /\ IsAudioOnly(selected_format[1])

RequestedCodecs == [i \in 1..Len(ydl_opts.postprocessors) |-> ydl_opts.postprocessors[i].preferredcodec]

\* C3: for an audio-only encoding, the extension of the path that
\* download_youtube_media and download_youtube_media_url report is the
\* encoding's own with answer "3" (and no postprocessor is requested), wav with
\* "2", mp3 with "1" or no answer, the requested codec being that extension.
C3_AudioExtension ==
    (SelectionReturned /\ AudioOnlySelected /\ Truthy(result)) =>
        /\ audio_choice = <<"3">> =>
            /\ PathExt(result) = <<selected_format[1].ext>>
            /\ RequestedCodecs = <<>>
        /\ audio_choice = <<"2">> =>
            /\ PathExt(result) = <<"wav">>
            /\ RequestedCodecs = <<"wav">>
        /\ audio_choice \in { <<"1">>, <<>> } =>
            /\ PathExt(result) = <<"mp3">>
            /\ RequestedCodecs = <<"mp3">>

\* "keep original" in the per-item download of a batch
C3_Witness ==
    /\ op = "2"
    /\ pc = "bd_collect"
    /\ format_choice = <<"4">>
    /\ AudioOnlySelected
    /\ audio_choice = <<"3">>
    /\ PathExt(result) = <<"m4a">>

VideoPair(f) == <<Get(f, "resolution", "unknown"), Get(f, "ext", "unknown")>>

AudioPair(f) == <<Get(f, "abr", 0), Get(f, "ext", "unknown")>>

NoTwoAlike(opts, Pair(_)) == \A i, j \in 1..Len(opts) : i # j => Pair(opts[i]) # Pair(opts[j])

\* the place in the discovery list of the first encoding of a partition with o's pair
FirstPlace(o, In(_), Pair(_)) ==
    CHOOSE p \in 0..Len(formats) :
        IF \E q \in 1..Len(formats) : In(formats[q]) /\ Pair(formats[q]) = Pair(o)
        THEN /\ p >= 1
             /\ In(formats[p]) /\ Pair(formats[p]) = Pair(o)
             /\ \A q \in 1..(p - 1) : ~(In(formats[q]) /\ Pair(formats[q]) = Pair(o))
        ELSE p = 0

FirstSeenInOrder(opts, In(_), Pair(_)) ==
    /\ \A i \in 1..Len(opts) :
        /\ FirstPlace(opts[i], In, Pair) >= 1
        /\ formats[FirstPlace(opts[i], In, Pair)] = opts[i]
    /\ \A i, j \in 1..Len(opts) : i < j => FirstPlace(opts[i], In, Pair) < FirstPlace(opts[j], In, Pair)

MenuBuilt == pc = "fsm_input"

C5_InvalidChoiceReprompts ==
    [][(pc = "fsm_input" /\ ~IsQuitToken(choice') /\ ~InRange(choice')) =>
        /\ pc' = "fsm_input"
        /\ console'.text \in {"Invalid selection", "Please enter a valid number"}
        /\ UNCHANGED <<selected_format, formats, video_options, audio_options, menu_lines>>]_vars

\* a number typed at a menu with no entries
C5_Witness ==
    /\ pc = "fsm_input"
    /\ Len(formats) > 0
    /\ total_options = 0
    /\ choice = <<"1">>
    /\ console.text = "Invalid selection"

ValidUrl(u) == Truthy(u) /\ youtube_pattern(u)

\* C6: an empty or malformed URL typed at a prompt never reaches the
\* extraction library, and never ends the operation with a failure.
C6_InvalidInputStaysAtPrompt ==
    /\ op \in {"1", "3", "4", "5"} => \A i \in 1..Len(net) : ValidUrl(net[i].url)
    /\ ~(pc = "main_report" /\ console.text = "Please enter a URL")

Discoveries == { i \in 1..Len(net) : net[i].kind = "discover" }

\* C7: a function sends at most one discovery request; when it failed or gave
\* no encodings, that request is the only one the function sent, the function
\* has returned no result, and no menu was built or answered.
C7_DiscoveryFailureTerminal ==
    /\ Cardinality(Discoveries) <= 1
    /\ (\E i \in Discoveries : net[i].outcome \in {"error", "empty"}) =>
        /\ Len(net) = 1
        /\ pc \in {"main_report", "bd_collect"}
        /\ ~Truthy(result)
        /\ console.text = "Could not retrieve available formats"
        /\ menu_lines = <<>>
        /\ video_options = <<>>
        /\ audio_options = <<>>
        /\ choice = <<>>
        /\ ~Truthy(selected_format)

\* an empty encoding list in the single download
C7_Witness ==
    /\ op = "1"
    /\ pc = "main_report"
    /\ Len(net) = 1
    /\ net[1].outcome = "empty"

MainChoices == { <<"1">>, <<"2">>, <<"3">>, <<"4">>, <<"5">>, <<"6">> }

\* C8: the loop is left only from the menu, on choice 6; a finished operation
\* is reported (as completed or failed) and the menu comes next; any other
\* answer than 1-6 is reported as invalid and the menu comes next.
C8_ExitOnlyOnSix ==
    [][/\ pc' = "exit" => (pc = "main" /\ main_choice' = <<"6">>)
       /\ pc = "main_report" =>
            /\ pc' = "main"
            /\ console'.text = IF Truthy(result) THEN "Operation completed successfully"
                               ELSE "Operation failed"
       /\ (pc = "main" /\ main_choice' \notin MainChoices) =>
            /\ pc' = "main"
            /\ console'.text = "Invalid choice"]_vars

\* back at the menu after a batch that failed
C8_Witness ==
    /\ pc = "main"
    /\ main_choice = <<"2">>
    /\ console.text = "Operation failed"

\* C9: every request a download function sends to the extraction library is
\* sent after that function's own check has returned the executables.
C9_CheckBeforeNetwork == \A i \in 1..Len(net) : net[i].checked

MenuAnswered == Truthy(selected_format)

\* C10: the lines printed are numbered 1, 2, ... with the video entries first;
\* an integer k in 1..V+A never re-prompts; and the encoding returned for k is
\* the one on the line numbered k: the k-th video entry for k <= V, the
\* (k-V)-th audio entry otherwise, an element of the discovery list.
C10_IndexMapsToEntry ==
    /\ \A i \in 1..Len(menu_lines) :
        /\ menu_lines[i].n = i
        /\ i <= Len(video_options) => menu_lines[i].key = VideoKey(video_options[i])
        /\ i > Len(video_options) =>
            menu_lines[i].key = AudioKey(audio_options[i - Len(video_options)])
    /\ pc = "fsm_input" => ~InRange(choice)
    /\ MenuAnswered =>
        \E k \in 1..total_options :
            /\ Denotes(choice, k)
            /\ selected_format[1] = IF k <= Len(video_options) THEN video_options[k]
                                    ELSE audio_options[k - Len(video_options)]
            /\ \E i \in 1..Len(menu_lines) :
                /\ menu_lines[i].n = k
                /\ menu_lines[i].ext = Get(selected_format[1], "ext", PyNone)
                /\ menu_lines[i].key = IF IsAudioOnly(selected_format[1])
                                       THEN AudioKey(selected_format[1])
                                       ELSE VideoKey(selected_format[1])
            /\ \E p \in 1..Len(formats) : formats[p] = selected_format[1]

\* one video and two audio entries, 3 typed: the second audio entry
C10_Witness ==
    /\ pc = "fsm_done"
    /\ Len(video_options) = 1
    /\ Len(audio_options) = 2
    /\ choice = <<"+", "3">>
    /\ selected_format = <<audio_options[2]>>

====
